---- MODULE Spec2Model ----
(***************************************************************************)
(* Model of sanic/asgi.py: the ASGI lifespan handshake loop (Lifespan) and *)
(* the per-request streaming adapter (ASGIApp).                            *)
(*                                                                         *)
(* Spec      : one ASGIApp instance driven by arbitrary sequences of       *)
(*             __call__ (run), read, __aiter__, respond and send calls.    *)
(* LifeSpec  : one Lifespan.__call__ loop, one step per await.             *)
(* LifeFair  : LifeSpec with weak fairness on the loop's own steps.        *)
(***************************************************************************)
EXTENDS Integers, Sequences, FiniteSets, TLC

VARIABLES
    \* ---- ASGIApp fields ----
    stage,          \* self.stage
    response,       \* self.response : a response id, or None
    stream,         \* response.stream for every response object
    request_body,   \* self.request_body
    \* ---- the gateway's send-channel and the callers' positions ----
    sent,           \* messages handed to transport.send, in order
    runPc,          \* position of __call__
    hxCalls,        \* handle_exception invocations of the current __call__
    iterPc,         \* position of the __aiter__ generator
    \* ---- observations of the calls made ----
    lastCall,       \* the last ASGIApp call and what it returned
    nCalls,         \* number of calls made so far
    iterRecv,       \* messages received by the current iteration
    yielded,        \* chunks yielded by the current iteration
    iterStartRB,    \* request_body when the current iteration started
    attached,       \* responses passed to respond() since the last send()
    curResp,        \* response of the last respond() call, None if it failed
    mark,           \* Len(sent) at the last respond() call
    sendsSince,     \* end_stream flags of the send() calls since then
    exchStart,      \* an http.response.start was sent since stage became HANDLER
    exchMark,       \* Len(sent) when the stage last became HANDLER
    runLog,         \* the framework entry points __call__ invoked, with outcomes
    \* ---- Lifespan ----
    lpc,            \* position of Lifespan.__call__
    lerr,           \* exception caught by the current try block, or None
    lsent,          \* messages handed to Lifespan.send, in order
    phases,         \* framework hooks entered while handling the current message
    lmsg,           \* type of the message being handled
    lraised,        \* the hook that raised while handling it, and its text
    nStartup,       \* lifespan.startup messages received
    nShutdown,      \* lifespan.shutdown messages received
    nRecv,          \* messages received by the loop
    uvloopSet,      \* config.USE_UVLOOP is not a Default
    warned,         \* the USE_UVLOOP warning was issued
    \* ---- ASGIApp.create ----
    scope,          \* the ASGI scope create() is given
    cOutcome,       \* "pending", or how create() ended
    request,        \* instance.request, NoRequest while none was built
    ws,             \* a WebSocketConnection was created
    dispatched,     \* http.lifecycle.request dispatches made
    \* ---- send() calls suspended on the send-channel ----
    tasks           \* per handler task: where its send() is suspended

avars == <<stage, response, stream, request_body, sent, runPc, hxCalls, iterPc,
           lastCall, nCalls, iterRecv, yielded, iterStartRB, attached, curResp,
           mark, sendsSince, exchStart, exchMark, runLog>>
lvars == <<lpc, lerr, lsent, phases, lmsg, lraised, nStartup, nShutdown, nRecv,
           uvloopSet, warned>>
cvars == <<scope, cOutcome, request, ws, dispatched>>
tvars == <<tasks>>
vars == <<avars, lvars, cvars, tvars>>

\* ---- bounds ----
MaxCalls == 4       \* ASGIApp calls per behaviour
MaxMsgs == 3        \* messages the lifespan receive-channel delivers
MaxHeaders == 2     \* header pairs in a scope

None == 0

\* ---- values ----
Responses == {1, 2}
\* response.status
Status(r) == IF r = 1 THEN 200 ELSE 404
\* response.processed_headers: an opaque header list owned by the response
ProcessedHeaders(r) == 10 + r
\* getattr(response, "body", None): response 1 carries a precomputed body,
\* response 2 is a streaming response without one (<<>> stands for None/b"")
ResponseBody(r) == IF r = 1 THEN <<104>> ELSE <<>>

\* Python values handed to send() and returned by read()
Bytes(b) == [kind |-> "bytes", val |-> b]
Str(s) == [kind |-> "str", val |-> s]
PyNone == [kind |-> "None", val |-> <<>>]
TypeError == [kind |-> "TypeError", val |-> <<>>]
Payloads == {Bytes(<<>>), Bytes(<<97>>), Str(<<>>), Str(<<"e_acute">>)}

\* truth value of a bytes/str/None object
Truthy(p) == p.val # <<>>

\* str.encode() under the default encoding (UTF-8): "a" is one byte,
\* e-acute is two
EncodeChar(c) == IF c = "a" THEN <<97>> ELSE <<195, 169>>
RECURSIVE Encode(_)
Encode(s) == IF s = <<>> THEN <<>> ELSE EncodeChar(Head(s)) \o Encode(Tail(s))

\* incoming ASGI messages: mappings that may lack "body" and/or "more_body"
Chunks == {<<>>, <<97>>}
Msg(ks, b, m) == [keys |-> ks, body |-> b, more_body |-> m]
NoMsg == Msg({}, <<>>, FALSE)
InMessages ==
    {NoMsg, Msg({"more_body"}, <<>>, TRUE)}
    \cup {Msg({"body"}, c, FALSE) : c \in Chunks}
    \cup {Msg({"body", "more_body"}, c, m) : c \in Chunks, m \in BOOLEAN}

\* message.get(key, default)
Get(m, k, d) == IF k \in m.keys THEN m[k] ELSE d

\* outgoing ASGI messages
StartMsg(r) ==
    [type |-> "http.response.start", status |-> Status(r),
     headers |-> ProcessedHeaders(r), body |-> <<>>, more_body |-> FALSE]
BodyMsg(b, more) ==
    [type |-> "http.response.body", status |-> 0, headers |-> 0,
     body |-> b, more_body |-> more]

\* record of one ASGIApp call: operation, argument, stage and request_body
\* before it, outcome, returned value, message received, receive() calls made
Call(op, arg, pre, rb, res, val, msg, recv) ==
    [op |-> op, arg |-> arg, pre |-> pre, rb |-> rb, res |-> res, val |-> val,
     msg |-> msg, recv |-> recv]

\* state after ASGIApp.create() has returned
AInit ==
    /\ stage = "IDLE"
    /\ response = None
    /\ stream = [r \in Responses |-> "None"]
    /\ request_body = TRUE
    /\ sent = <<>>
    /\ runPc = "none"
    /\ hxCalls = 0
    /\ iterPc = "none"
    /\ lastCall = Call("create", None, "IDLE", TRUE, "ok", PyNone, NoMsg, 0)
    /\ nCalls = 0
    /\ iterRecv = <<>>
    /\ yielded = <<>>
    /\ iterStartRB = TRUE
    /\ attached = <<>>
    /\ curResp = None
    /\ mark = 0
    /\ sendsSince = <<>>
    /\ exchStart = FALSE
    /\ exchMark = 0
    /\ runLog = <<>>

\* ---------------------------------------------------------------------
\* ASGIApp.read
\* ---------------------------------------------------------------------
ReadStage_AlwaysRequest(s) == "REQUEST"

ReadStage_Unchanged(s) == s

\* lines 196-197
ReadStage(s) == IF s = "IDLE" THEN "REQUEST" ELSE s

ReadReturn_NoneAtEnd(m) ==
    IF ~Get(m, "more_body", FALSE) THEN PyNone ELSE Bytes(Get(m, "body", <<>>))

\* lines 199-204: the value read() returns for a received message
ReadReturn(m) ==
    LET body == Get(m, "body", <<>>)
    IN  IF ~Get(m, "more_body", FALSE) /\ body = <<>> THEN PyNone ELSE Bytes(body)

ReadRequestBody_NeverCleared(m, rb) == rb

ReadRequestBody_FromMessage(m, rb) == Get(m, "more_body", FALSE)

\* lines 200-201
ReadRequestBody(m, rb) == IF ~Get(m, "more_body", FALSE) THEN FALSE ELSE rb

\* the state change of one read() call that receives m
ReadEffect(op, m) ==
    /\ stage' = ReadStage(stage)
    /\ request_body' = ReadRequestBody(m, request_body)
    /\ lastCall' = Call(op, None, stage, request_body, "ok", ReadReturn(m), m, 1)
    /\ nCalls' = nCalls + 1

read ==
    /\ nCalls < MaxCalls
    /\ \E m \in InMessages : ReadEffect("read", m)
    /\ UNCHANGED <<response, stream, sent, runPc, hxCalls, iterPc, iterRecv,
                   yielded, iterStartRB, attached, curResp, mark, sendsSince,
                   exchStart, exchMark, runLog>>

\* ---------------------------------------------------------------------
\* ASGIApp.__aiter__
\* ---------------------------------------------------------------------
\* a consumer starts iterating the adapter
aiter_start ==
    /\ nCalls < MaxCalls
    /\ iterPc # "active"
    /\ iterPc' = "active"
    /\ iterRecv' = <<>>
    /\ yielded' = <<>>
    /\ iterStartRB' = request_body
    /\ lastCall' = Call("aiter", None, stage, request_body, "ok", PyNone, NoMsg, 0)
    /\ nCalls' = nCalls + 1
    /\ UNCHANGED <<stage, response, stream, request_body, sent, runPc, hxCalls,
                   attached, curResp, mark, sendsSince, exchStart, exchMark,
                   runLog>>

\* line 209-210: the chunks yielded after read() returned data
Yield(ys, data) == IF Truthy(data) THEN Append(ys, data.val) ELSE ys

\* lines 207-210, one turn of the loop: request_body holds, read() is awaited
aiter_read ==
    /\ nCalls < MaxCalls
    /\ iterPc = "active"
    /\ request_body
    /\ \E m \in InMessages :
        /\ ReadEffect("aiter_read", m)
        /\ iterRecv' = Append(iterRecv, m)
        /\ yielded' = Yield(yielded, ReadReturn(m))
    /\ UNCHANGED <<response, stream, sent, runPc, hxCalls, iterPc, iterStartRB,
                   attached, curResp, mark, sendsSince, exchStart, exchMark,
                   runLog>>

\* line 207: request_body is false, the generator is exhausted
aiter_stop ==
    /\ iterPc = "active"
    /\ ~request_body
    /\ iterPc' = "done"
    /\ UNCHANGED <<stage, response, stream, request_body, sent, runPc, hxCalls,
                   lastCall, nCalls, iterRecv, yielded, iterStartRB, attached,
                   curResp, mark, sendsSince, exchStart, exchMark, runLog>>

\* ---------------------------------------------------------------------
\* ASGIApp.respond
\* ---------------------------------------------------------------------
RespondLegal_AlsoResponse(s) == s \in {"HANDLER", "RESPONSE"}

RespondLegal_OnlyIdle(s) == s = "IDLE"

\* line 213
RespondLegal(s) == s = "HANDLER"

Attach_NoDetach(st, old, r) == [st EXCEPT ![r] = "self"]

\* lines 216-218: the stream links after attaching r in place of old
Attach(st, old, r) ==
    LET cleared == IF old # None THEN [st EXCEPT ![old] = "None"] ELSE st
    IN  [cleared EXCEPT ![r] = "self"]

respond(r) ==
    /\ nCalls < MaxCalls
    /\ nCalls' = nCalls + 1
    /\ mark' = Len(sent)
    /\ sendsSince' = <<>>
    /\ IF ~RespondLegal(stage)
       THEN /\ stage' = "FAILED"
            /\ lastCall' = Call("respond", r, stage, request_body, "RuntimeError",
                                PyNone, NoMsg, 0)
            /\ curResp' = None
            /\ UNCHANGED <<response, stream, attached>>
       ELSE /\ stream' = Attach(stream, response, r)
            /\ response' = r
            /\ lastCall' = Call("respond", r, stage, request_body, "ok",
                                PyNone, NoMsg, 0)
            /\ curResp' = r
            /\ attached' = Append(attached, r)
            /\ UNCHANGED stage
    /\ UNCHANGED <<request_body, sent, runPc, hxCalls, iterPc, iterRecv, yielded,
                   iterStartRB, exchStart, exchMark, runLog>>

\* ---------------------------------------------------------------------
\* ASGIApp.send
\* ---------------------------------------------------------------------
SendStage_StaysHandler(end_stream) == "HANDLER"

\* line 222
SendStage(end_stream) == IF end_stream THEN "IDLE" ELSE "RESPONSE"

\* lines 232-234: the chunk after the pending response's body is prepended;
\* bytes + str raises TypeError
Prepend(r, data) ==
    LET response_body == ResponseBody(r)
    IN  IF response_body # <<>>
        THEN IF Truthy(data)
             THEN IF data.kind = "bytes"
                  THEN Bytes(response_body \o data.val)
                  ELSE TypeError
             ELSE Bytes(response_body)
        ELSE data

\* line 238
WireBody(data) == IF data.kind = "str" THEN Encode(data.val) ELSE data.val

\* lines 223-241: the messages one send() hands to transport.send
SendMessages(pending, data, end_stream) ==
    LET chunk == IF pending # None THEN Prepend(pending, data) ELSE data
        start == IF pending # None THEN <<StartMsg(pending)>> ELSE <<>>
    IN  IF chunk = TypeError
        THEN start
        ELSE start \o <<BodyMsg(WireBody(chunk), ~end_stream)>>

\* lines 232-234: whether send() raises
SendResult(pending, data) ==
    IF pending # None /\ Prepend(pending, data) = TypeError
    THEN "TypeError" ELSE "ok"

send(data, end_stream) ==
    /\ nCalls < MaxCalls
    /\ nCalls' = nCalls + 1
    /\ stage' = SendStage(end_stream)
    /\ response' = None
    /\ sent' = sent \o SendMessages(response, data, end_stream)
    /\ lastCall' = Call("send", response, stage, request_body,
                        SendResult(response, data), data, NoMsg, 0)
    /\ attached' = <<>>
    /\ sendsSince' = Append(sendsSince, end_stream)
    /\ exchStart' = (exchStart \/ response # None)
    /\ UNCHANGED <<stream, request_body, runPc, hxCalls, iterPc, iterRecv,
                   yielded, iterStartRB, curResp, mark, exchMark, runLog>>

\* ---------------------------------------------------------------------
\* ASGIApp.__call__
\* ---------------------------------------------------------------------
\* the exceptions (instances of Exception) the framework entry points raise,
\* named after the call that raised them
RaisedBy(fn) == "error_of_" \o fn

\* one invocation of a framework entry point: the exception and the third
\* positional argument it was given, and how it ended
Invocation(fn, err, flag) == [fn |-> fn, err |-> err, flag |-> flag, out |-> "pending"]

\* the last invocation of the log has ended with outcome out
Ended(log, out) == [log EXCEPT ![Len(log)].out = out]

\* lines 249-251: stage becomes HANDLER and handle_request is awaited
run ==
    /\ nCalls < MaxCalls
    /\ runPc \in {"none", "returned", "raised"}
    /\ nCalls' = nCalls + 1
    /\ stage' = "HANDLER"
    /\ runPc' = "handle_request"
    /\ hxCalls' = 0
    /\ exchStart' = FALSE
    /\ exchMark' = Len(sent)
    /\ runLog' = <<Invocation("handle_request", "None", "default")>>
    /\ lastCall' = Call("run", None, stage, request_body, "ok", PyNone, NoMsg, 0)
    /\ UNCHANGED <<response, stream, request_body, sent, iterPc, iterRecv,
                   yielded, iterStartRB, attached, curResp, mark, sendsSince>>

RunFrame ==
    UNCHANGED <<stage, response, stream, request_body, sent, iterPc, lastCall,
                nCalls, iterRecv, yielded, iterStartRB, attached, curResp, mark,
                sendsSince, exchStart, exchMark>>

\* line 251 returns normally
handle_request_returns ==
    /\ runPc = "handle_request"
    /\ runPc' = "returned"
    /\ runLog' = Ended(runLog, "ok")
    /\ UNCHANGED hxCalls
    /\ RunFrame

\* lines 252-254: handle_request raised, handle_exception(request, e)
handle_request_raises ==
    /\ runPc = "handle_request"
    /\ runPc' = "handle_exception"
    /\ hxCalls' = hxCalls + 1
    /\ LET e == RaisedBy("handle_request")
       IN  runLog' = Append(Ended(runLog, e),
                            Invocation("handle_exception", e, "default"))
    /\ RunFrame

handle_exception_returns ==
    /\ runPc = "handle_exception"
    /\ runPc' = "returned"
    /\ runLog' = Ended(runLog, "ok")
    /\ UNCHANGED hxCalls
    /\ RunFrame

handle_exception_raises_Swallowed ==
    /\ runPc = "handle_exception"
    /\ runPc' = "returned"
    /\ runLog' = Ended(runLog, RaisedBy("handle_exception"))
    /\ UNCHANGED hxCalls
    /\ RunFrame

\* lines 255-256: handle_exception raised, handle_exception(request, exc, False)
handle_exception_raises ==
    /\ runPc = "handle_exception"
    /\ runPc' = "fallback"
    /\ hxCalls' = hxCalls + 1
    /\ LET exc == RaisedBy("handle_exception")
       IN  runLog' = Append(Ended(runLog, exc),
                            Invocation("handle_exception", exc, "False"))
    /\ RunFrame

fallback_returns ==
    /\ runPc = "fallback"
    /\ runPc' = "returned"
    /\ runLog' = Ended(runLog, "ok")
    /\ UNCHANGED hxCalls
    /\ RunFrame

\* line 256 raises: nothing catches it, it leaves __call__
fallback_raises ==
    /\ runPc = "fallback"
    /\ runPc' = "raised"
    /\ runLog' = Ended(runLog, RaisedBy("fallback"))
    /\ UNCHANGED hxCalls
    /\ RunFrame

\* ---------------------------------------------------------------------
\* Lifespan
\* ---------------------------------------------------------------------
\* message types the gateway may deliver to the lifespan loop
LifeTypes == {"lifespan.startup", "lifespan.shutdown", "other"}
\* str(e) of the exceptions a hook may raise
Errors == {"boom", "bang"}
NoRaise == [phase |-> "None", text |-> "None"]

HookOrder_AfterFirst(t) ==
    IF t = "lifespan.startup"
    THEN <<"_startup", "init.after", "init.before">>
    ELSE <<"shutdown.after", "shutdown.before">>

\* lines 58-60 and 78-79: the awaits of startup() and of shutdown(), in order
HookOrder(t) ==
    IF t = "lifespan.startup"
    THEN <<"_startup", "init.before", "init.after">>
    ELSE <<"shutdown.before", "shutdown.after">>

\* lines 84 and 94: where the loop goes after receiving a message of type t
Dispatch(t) ==
    IF t \in {"lifespan.startup", "lifespan.shutdown"} THEN "hooks" ELSE "receive"

\* lines 87 and 97: an exception leaves startup()/shutdown() for the handler
AfterRaise == "reply"

Reply_AlwaysComplete(t, err) ==
    IF t = "lifespan.startup"
    THEN [type |-> "lifespan.startup.complete", message |-> "None"]
    ELSE [type |-> "lifespan.shutdown.complete", message |-> "None"]

\* lines 89-93 and 99-103: the reply to a message of type t
Reply(t, err) ==
    IF t = "lifespan.startup"
    THEN IF err # "None"
         THEN [type |-> "lifespan.startup.failed", message |-> err]
         ELSE [type |-> "lifespan.startup.complete", message |-> "None"]
    ELSE IF err # "None"
         THEN [type |-> "lifespan.shutdown.failed", message |-> err]
         ELSE [type |-> "lifespan.shutdown.complete", message |-> "None"]

AfterReply_AlwaysReturn(t) == "done"

\* lines 82 and 104: after the reply the loop continues, or returns
AfterReply(t) == IF t = "lifespan.shutdown" THEN "done" ELSE "receive"

LInit ==
    /\ lpc = "receive"
    /\ lerr = "None"
    /\ lsent = <<>>
    /\ phases = <<>>
    /\ lmsg = "None"
    /\ lraised = NoRaise
    /\ nStartup = 0
    /\ nShutdown = 0
    /\ nRecv = 0
    /\ uvloopSet \in BOOLEAN
    /\ warned = FALSE

\* line 83: the loop receives the next message
l_receive ==
    /\ lpc = "receive"
    /\ nRecv < MaxMsgs
    /\ \E t \in LifeTypes :
        /\ lmsg' = t
        /\ lpc' = Dispatch(t)
        /\ nStartup' = nStartup + (IF t = "lifespan.startup" THEN 1 ELSE 0)
        /\ nShutdown' = nShutdown + (IF t = "lifespan.shutdown" THEN 1 ELSE 0)
    /\ nRecv' = nRecv + 1
    /\ phases' = <<>>
    /\ lraised' = NoRaise
    /\ UNCHANGED <<lerr, lsent, uvloopSet, warned>>

\* the hook startup()/shutdown() awaits next
NextHook == HookOrder(lmsg)[Len(phases) + 1]

\* lines 58-67 and 78-79: the awaited hook returns; after the last hook of
\* startup() the USE_UVLOOP warning is issued when the option is set
l_hook_returns ==
    /\ lpc = "hooks"
    /\ phases' = Append(phases, NextHook)
    /\ lpc' = IF Len(phases') = Len(HookOrder(lmsg)) THEN "reply" ELSE "hooks"
    /\ warned' = IF lmsg = "lifespan.startup" /\ Len(phases') = Len(HookOrder(lmsg))
                 THEN (warned \/ uvloopSet) ELSE warned
    /\ UNCHANGED <<lerr, lsent, lmsg, lraised, nStartup, nShutdown, nRecv,
                   uvloopSet>>

\* lines 87-88 and 97-98: the awaited hook raises an Exception
l_hook_raises ==
    /\ lpc = "hooks"
    /\ \E e \in Errors :
        /\ lerr' = e
        /\ lraised' = [phase |-> NextHook, text |-> e]
    /\ phases' = Append(phases, NextHook)
    /\ lpc' = AfterRaise
    /\ UNCHANGED <<lsent, lmsg, nStartup, nShutdown, nRecv, uvloopSet, warned>>

\* lines 89-93 and 99-104: the reply is sent
l_reply ==
    /\ lpc = "reply"
    /\ lsent' = Append(lsent, Reply(lmsg, lerr))
    /\ lerr' = "None"
    /\ lpc' = AfterReply(lmsg)
    /\ UNCHANGED <<phases, lmsg, lraised, nStartup, nShutdown, nRecv, uvloopSet,
                   warned>>

\* ---------------------------------------------------------------------
\* ASGIApp.create
\* ---------------------------------------------------------------------
\* header names and values as the gateway delivers them (byte strings)
HeaderKeys == {<<97>>, <<233>>}
HeaderValues == {<<98>>, <<195, 169>>, <<255>>}
HeaderPairs == {<<k, v>> : k \in HeaderKeys, v \in HeaderValues}
HeaderLists ==
    UNION {[1..n -> HeaderPairs] : n \in 0..MaxHeaders}

\* scopes: kind, declared version and method, raw path, query string and
\* header list; hasHeaders is false for a scope without a "headers" entry
Scopes ==
    [type : {"http", "websocket", "lifespan"},
     http_version : {"2"},
     method : {"POST"},
     raw_path : {<<47, 97>>, <<47, 97, 63, 120>>},
     query_string : {<<>>, <<120>>},
     hasHeaders : {TRUE},
     headers : HeaderLists]
    \cup
    [type : {"http", "websocket", "lifespan"},
     http_version : {"2"},
     method : {"POST"},
     raw_path : {<<47, 97>>, <<47, 97, 63, 120>>},
     query_string : {<<>>, <<120>>},
     hasHeaders : {FALSE},
     headers : {<<>>}]

\* line 141: scope.get("headers", [])
ScopeHeaders(sc) == IF sc.hasHeaders THEN sc.headers ELSE <<>>

\* line 138: key.decode("ASCII") raises UnicodeDecodeError on a byte > 127
AsciiDecodable(bs) == \A i \in 1..Len(bs) : bs[i] < 128

\* line 139: value.decode(errors="surrogateescape"), UTF-8 over one- and
\* two-byte sequences; a byte that does not decode becomes the lone
\* surrogate U+DC00 + byte
RECURSIVE DecodeSurrogateEscape(_)
DecodeSurrogateEscape(bs) ==
    IF bs = <<>> THEN <<>>
    ELSE IF bs[1] < 128
         THEN <<bs[1]>> \o DecodeSurrogateEscape(Tail(bs))
    ELSE IF /\ bs[1] \in 194..223
            /\ Len(bs) >= 2
            /\ bs[2] \in 128..191
         THEN <<(bs[1] - 192) * 64 + (bs[2] - 128)>>
              \o DecodeSurrogateEscape(Tail(Tail(bs)))
    ELSE <<56320 + bs[1]>> \o DecodeSurrogateEscape(Tail(bs))

\* lines 135-143: the decoded header list, in scope order
DecodeHeaders(hs) ==
    [i \in 1..Len(hs) |-> <<Str(hs[i][1]), Str(DecodeSurrogateEscape(hs[i][2]))>>]

\* bytes.split(b"?", 1)[0]
RECURSIVE BeforeQuestionMark(_)
BeforeQuestionMark(bs) ==
    IF bs = <<>> \/ bs[1] = 63 THEN <<>>
    ELSE <<bs[1]>> \o BeforeQuestionMark(Tail(bs))

\* lines 162-167
UrlBytes(sc) ==
    IF sc.query_string # <<>>
    THEN BeforeQuestionMark(sc.raw_path) \o <<63>> \o sc.query_string
    ELSE sc.raw_path

CreateOutcome_KindFirst(sc) ==
    IF sc.type \notin {"http", "websocket"} THEN "ServerError"
    ELSE IF \E i \in 1..Len(ScopeHeaders(sc)) :
                ~AsciiDecodable(ScopeHeaders(sc)[i][1])
         THEN "BadRequest"
    ELSE "ok"

\* lines 134-160: how create() ends; the header names are decoded before
\* the scope kind is looked at
CreateOutcome(sc) ==
    IF \E i \in 1..Len(ScopeHeaders(sc)) : ~AsciiDecodable(ScopeHeaders(sc)[i][1])
    THEN "BadRequest"
    ELSE IF sc.type \notin {"http", "websocket"} THEN "ServerError"
    ELSE "ok"

NoRequest == [url |-> <<>>, headers |-> <<>>, version |-> "None", method |-> "None"]

\* lines 149-154 and 169-177: the Request create() builds
RequestOf(sc) ==
    [url |-> UrlBytes(sc),
     headers |-> DecodeHeaders(ScopeHeaders(sc)),
     version |-> IF sc.type = "http" THEN sc.http_version ELSE "1.1",
     method |-> IF sc.type = "http" THEN sc.method ELSE "GET"]

\* the scope of the adapter the specifications of the calls start from
DefaultScope ==
    [type |-> "http", http_version |-> "2", method |-> "POST",
     raw_path |-> <<47, 97>>, query_string |-> <<>>, hasHeaders |-> TRUE,
     headers |-> <<>>]

\* create() has returned an adapter for DefaultScope
CDone ==
    /\ scope = DefaultScope
    /\ cOutcome = "ok"
    /\ request = RequestOf(DefaultScope)
    /\ ws = FALSE
    /\ dispatched = 1

\* create() is about to be called: no instance field is set yet
\* (request_body = FALSE stands for the attribute not being set)
CreateInit ==
    /\ scope \in Scopes
    /\ cOutcome = "pending"
    /\ request = NoRequest
    /\ ws = FALSE
    /\ dispatched = 0
    /\ stage = "unset"
    /\ response = None
    /\ stream = [r \in Responses |-> "None"]
    /\ request_body = FALSE
    /\ sent = <<>>
    /\ runPc = "none"
    /\ hxCalls = 0
    /\ iterPc = "none"
    /\ lastCall = Call("none", None, "unset", FALSE, "ok", PyNone, NoMsg, 0)
    /\ nCalls = 0
    /\ iterRecv = <<>>
    /\ yielded = <<>>
    /\ iterStartRB = TRUE
    /\ attached = <<>>
    /\ curResp = None
    /\ mark = 0
    /\ sendsSince = <<>>
    /\ exchStart = FALSE
    /\ exchMark = 0
    /\ runLog = <<>>

\* lines 117-190
create ==
    /\ cOutcome = "pending"
    /\ cOutcome' = CreateOutcome(scope)
    /\ stage' = "IDLE"
    /\ response' = None
    /\ ws' = (CreateOutcome(scope) = "ok" /\ scope.type = "websocket")
    /\ request' = IF CreateOutcome(scope) = "ok" THEN RequestOf(scope) ELSE NoRequest
    /\ request_body' = (CreateOutcome(scope) = "ok")
    /\ dispatched' = IF CreateOutcome(scope) = "ok" THEN 1 ELSE 0
    /\ lastCall' = Call("create", None, stage, request_body,
                        CreateOutcome(scope), PyNone, NoMsg, 0)
    /\ UNCHANGED <<scope, stream, sent, runPc, hxCalls, iterPc, nCalls, iterRecv,
                   yielded, iterStartRB, attached, curResp, mark, sendsSince,
                   exchStart, exchMark, runLog>>

\* ---------------------------------------------------------------------
\* ASGIApp.send, one step per suspension point
\* ---------------------------------------------------------------------
\* the handler's tasks that may call into the adapter
Tasks == {1, 2}
Idle == [pc |-> "idle", resp |-> None, data |-> PyNone, end_stream |-> FALSE]
Suspended(pc, resp, data, end_stream) ==
    [pc |-> pc, resp |-> resp, data |-> data, end_stream |-> end_stream]

TIdle == tasks = [t \in Tasks |-> Idle]

PendingAfterSwap_Kept(pending) == pending

\* line 224: self.response after "response, self.response = self.response, None"
PendingAfterSwap(pending) == None

\* lines 222-225 or 222-235: send() runs to its first await; the stage is
\* set, the pending response is detached and the first message is handed to
\* transport.send
send_begin(t, data, end_stream) ==
    /\ nCalls < MaxCalls
    /\ tasks[t].pc = "idle"
    /\ nCalls' = nCalls + 1
    /\ stage' = SendStage(end_stream)
    /\ IF response # None
       THEN /\ response' = PendingAfterSwap(response)
            /\ sent' = Append(sent, StartMsg(response))
            /\ tasks' = [tasks EXCEPT
                           ![t] = Suspended("after_start", response, data, end_stream)]
       ELSE /\ response' = response
            /\ sent' = Append(sent, BodyMsg(WireBody(data), ~end_stream))
            /\ tasks' = [tasks EXCEPT
                           ![t] = Suspended("after_body", None, data, end_stream)]
    /\ lastCall' = Call("send", response, stage, request_body, "pending", data,
                        NoMsg, 0)
    /\ attached' = <<>>
    /\ sendsSince' = Append(sendsSince, end_stream)
    /\ exchStart' = (exchStart \/ response # None)
    /\ UNCHANGED <<stream, request_body, runPc, hxCalls, iterPc, iterRecv,
                   yielded, iterStartRB, curResp, mark, exchMark, runLog>>

SendFrame ==
    UNCHANGED <<stage, response, stream, request_body, runPc, hxCalls, iterPc,
                lastCall, nCalls, iterRecv, yielded, iterStartRB, attached,
                curResp, mark, sendsSince, exchStart, exchMark, runLog>>

\* lines 232-235: transport.send(start) has returned; the response's body is
\* prepended and the body message is handed to transport.send, unless the
\* concatenation raises
send_resume(t) ==
    /\ tasks[t].pc = "after_start"
    /\ LET chunk == Prepend(tasks[t].resp, tasks[t].data)
       IN  IF chunk = TypeError
           THEN /\ tasks' = [tasks EXCEPT ![t] = Idle]
                /\ UNCHANGED sent
           ELSE /\ tasks' = [tasks EXCEPT ![t].pc = "after_body"]
                /\ sent' = Append(sent, BodyMsg(WireBody(chunk), ~tasks[t].end_stream))
    /\ SendFrame

\* line 241: transport.send(body) has returned, and so does send()
send_return(t) ==
    /\ tasks[t].pc = "after_body"
    /\ tasks' = [tasks EXCEPT ![t] = Idle]
    /\ UNCHANGED sent
    /\ SendFrame

\* a send() is suspended on the send-channel
SendInFlight == \E t \in Tasks : tasks[t].pc # "idle"

\* an adapter after create(), under the default configuration (USE_UVLOOP
\* left at its Default); the lifespan loop does not run
Init == AInit /\ LInit /\ ~uvloopSet /\ CDone /\ TIdle

\* the lifespan loop before its first receive(), under either configuration
LifeInit == AInit /\ LInit /\ CDone /\ TIdle

Next ==
    \/ (read /\ UNCHANGED <<lvars, cvars, tvars>>)
    \/ (aiter_start /\ UNCHANGED <<lvars, cvars, tvars>>)
    \/ (aiter_read /\ UNCHANGED <<lvars, cvars, tvars>>)
    \/ (aiter_stop /\ UNCHANGED <<lvars, cvars, tvars>>)
    \/ (\E r \in Responses : respond(r) /\ UNCHANGED <<lvars, cvars, tvars>>)
    \/ (\E d \in Payloads, e \in BOOLEAN : send(d, e) /\ UNCHANGED <<lvars, cvars, tvars>>)
    \/ (run /\ UNCHANGED <<lvars, cvars, tvars>>)
    \/ (handle_request_returns /\ UNCHANGED <<lvars, cvars, tvars>>)
    \/ (handle_request_raises /\ UNCHANGED <<lvars, cvars, tvars>>)
    \/ (handle_exception_returns /\ UNCHANGED <<lvars, cvars, tvars>>)
    \/ (handle_exception_raises /\ UNCHANGED <<lvars, cvars, tvars>>)
    \/ (fallback_returns /\ UNCHANGED <<lvars, cvars, tvars>>)
    \/ (fallback_raises /\ UNCHANGED <<lvars, cvars, tvars>>)

Spec == Init /\ [][Next]_vars

LNext ==
    \/ (l_receive /\ UNCHANGED <<avars, cvars, tvars>>)
    \/ (l_hook_returns /\ UNCHANGED <<avars, cvars, tvars>>)
    \/ (l_hook_raises /\ UNCHANGED <<avars, cvars, tvars>>)
    \/ (l_reply /\ UNCHANGED <<avars, cvars, tvars>>)

LifeSpec == LifeInit /\ [][LNext]_vars

\* the event loop keeps running the lifespan task: every step of the loop
\* other than the arrival of a message is eventually taken
LStep ==
    (l_hook_returns \/ l_hook_raises \/ l_reply) /\ UNCHANGED <<avars, cvars, tvars>>

\* create() applied to every scope
CNext == create /\ UNCHANGED <<lvars, tvars>>

CInit == CreateInit /\ LInit /\ TIdle

CreateSpec == CInit /\ [][CNext]_vars

\* respond() and send() calls of the handler's tasks interleaved at the
\* suspension points of send(); __call__ is entered while no send() is
\* suspended
TNext ==
    \/ (~SendInFlight /\ run /\ UNCHANGED <<lvars, cvars, tvars>>)
    \/ (handle_request_returns /\ UNCHANGED <<lvars, cvars, tvars>>)
    \/ (\E r \in Responses : respond(r) /\ UNCHANGED <<lvars, cvars, tvars>>)
    \/ (\E t \in Tasks, d \in Payloads, e \in BOOLEAN :
            send_begin(t, d, e) /\ UNCHANGED <<lvars, cvars>>)
    \/ (\E t \in Tasks : send_resume(t) /\ UNCHANGED <<lvars, cvars>>)
    \/ (\E t \in Tasks : send_return(t) /\ UNCHANGED <<lvars, cvars>>)

ConcSpec == Init /\ [][TNext]_vars

LifeFair == LifeInit /\ [][LNext]_vars /\ WF_vars(LStep)


\* =====================================================================
\* Properties of ASGIApp (checked under Spec)
\* =====================================================================
\* a step that is an ASGIApp call of operation op
IsCall(op) == nCalls' = nCalls + 1 /\ lastCall'.op = op

\* C1: respond() called while the stage is not HANDLER sets the stage to
\* FAILED and raises the "Response already started" RuntimeError; it attaches
\* nothing, leaves the pending response alone and emits no message.
C1_RespondOutsideHandlerFails ==
    [][(IsCall("respond") /\ stage # "HANDLER") =>
          /\ stage' = "FAILED"
          /\ lastCall'.res = "RuntimeError"
          /\ response' = response
          /\ stream' = stream
          /\ sent' = sent]_vars

C1_Witness ==
    /\ lastCall.op = "respond"
    /\ lastCall.pre = "RESPONSE"
    /\ lastCall.res = "RuntimeError"
    /\ stage = "FAILED"

\* the messages emitted since the last respond() call
SinceRespond == SubSeq(sent, mark + 1, Len(sent))

\* C2: after a successful respond(r), for send() calls of which only the
\* last may have end_stream true, the messages emitted are one
\* http.response.start for r followed by one http.response.body per send()
\* with more_body = not end_stream, and right after each send() the stage is
\* RESPONSE if it was not final and IDLE if it was.
C2_StartThenOneBodyPerSend ==
    LET k == Len(sendsSince)
    IN  (curResp # None /\ k > 0 /\ \A i \in 1..(k - 1) : ~sendsSince[i]) =>
          /\ Len(SinceRespond) = k + 1
          /\ SinceRespond[1] = StartMsg(curResp)
          /\ \A i \in 1..k :
                /\ SinceRespond[i + 1].type = "http.response.body"
                /\ SinceRespond[i + 1].more_body = ~sendsSince[i]
          /\ (lastCall.op = "send" =>
                stage = IF sendsSince[k] THEN "IDLE" ELSE "RESPONSE")

\* C3: after respond() calls made in HANDLER with no send() since, none of
\* them failed, the stage is HANDLER, the pending response is the last one
\* passed, its stream link is the adapter and every other response passed has
\* its link cleared; the next send() emits exactly one http.response.start,
\* for the last response.
C3_State ==
    /\ (lastCall.op = "respond" /\ lastCall.pre = "HANDLER" => lastCall.res = "ok")
    /\ (attached # <<>> =>
          LET last == attached[Len(attached)]
          IN  /\ stage = "HANDLER"
              /\ response = last
              /\ stream[last] = "self"
              /\ \A i \in 1..Len(attached) :
                    attached[i] # last => stream[attached[i]] = "None")

C3_NextSend ==
    (IsCall("send") /\ attached # <<>>) =>
        /\ Len(sent') > Len(sent)
        /\ sent'[Len(sent) + 1] = StartMsg(attached[Len(attached)])
        /\ \A j \in (Len(sent) + 2)..Len(sent') :
              sent'[j].type # "http.response.start"

C3_LastRespondWins == [](C3_State) /\ [][C3_NextSend]_vars

C3_Witness ==
    /\ Len(attached) = 2
    /\ attached[1] # attached[2]
    /\ stream[attached[1]] = "None"
    /\ response = attached[2]

\* C4: no http.response.body is emitted unless an http.response.start was
\* emitted earlier in the same exchange (since the stage last became HANDLER).
C4_NoBodyBeforeStart ==
    (runPc # "none" /\ lastCall.op = "send" /\ lastCall.res = "ok") => exchStart

\* C5: read() after end-of-body has been signalled returns an empty result
\* without calling the receive-channel.
C5_ReadAfterEndDoesNotReceive ==
    (lastCall.op = "read" /\ ~lastCall.rb) =>
        (lastCall.recv = 0 /\ ~Truthy(lastCall.val))

\* whether a received message says that more body follows
More(m) == "more_body" \in m.keys /\ m.more_body
\* the chunk a received message carries
Chunk(m) == IF "body" \in m.keys THEN m.body ELSE <<>>

RECURSIVE NonEmptyChunks(_)
NonEmptyChunks(ms) ==
    IF ms = <<>> THEN <<>>
    ELSE (IF Chunk(Head(ms)) # <<>> THEN <<Chunk(Head(ms))>> ELSE <<>>)
         \o NonEmptyChunks(Tail(ms))

\* C6: an iteration yields, in order, exactly the non-empty chunks of the
\* messages it received; it receives nothing after the first message whose
\* more_body is false and is exhausted exactly then; an iteration started
\* after end-of-body yields nothing and receives nothing.
C6_IterationStopsAtEndOfBody ==
    /\ yielded = NonEmptyChunks(iterRecv)
    /\ \A i \in 1..(Len(iterRecv) - 1) : More(iterRecv[i])
    /\ (lastCall.op = "aiter_read" =>
          (request_body <=> More(iterRecv[Len(iterRecv)])))
    /\ (iterPc = "active" /\ ~request_body => ~ENABLED aiter_read)
    /\ (iterPc = "done" => ~request_body)
    /\ (~iterStartRB => (iterRecv = <<>> /\ yielded = <<>>))

C6_Witness ==
    /\ iterPc = "done"
    /\ Len(iterRecv) = 3
    /\ yielded = <<<<97>>, <<97>>>>

\* C7: one read() receives exactly one message; it returns None exactly when
\* the message has more_body false and an empty chunk, and the chunk
\* otherwise; request_body is cleared exactly when more_body is false.
C7_ReadOneMessage ==
    lastCall.op \in {"read", "aiter_read"} =>
        LET m == lastCall.msg
        IN  /\ lastCall.recv = 1
            /\ (lastCall.val = PyNone <=> (~More(m) /\ Chunk(m) = <<>>))
            /\ (lastCall.val # PyNone => lastCall.val = Bytes(Chunk(m)))
            /\ (request_body <=> (lastCall.rb /\ More(m)))

C7_Witness ==
    /\ lastCall.op = "read"
    /\ lastCall.rb
    /\ ~More(lastCall.msg)
    /\ lastCall.val = Bytes(<<97>>)
    /\ ~request_body

\* =====================================================================
\* Properties of Lifespan (checked under LifeSpec and LifeFair)
\* =====================================================================
Count(log, types) == Cardinality({i \in 1..Len(log) : log[i].type \in types})

\* the reply the protocol expects for the message being handled
ExpectedReply(prefix) ==
    IF lraised # NoRaise
    THEN [type |-> prefix \o ".failed", message |-> lraised.text]
    ELSE [type |-> prefix \o ".complete", message |-> "None"]

\* C8: every lifespan.startup message received gets exactly one reply,
\* lifespan.startup.failed with the exception text if a startup hook raised
\* and lifespan.startup.complete otherwise, and after the reply the loop is
\* receiving again.
C8_Count ==
    Count(lsent, {"lifespan.startup.failed", "lifespan.startup.complete"})
        = nStartup - (IF lmsg = "lifespan.startup" /\ lpc \in {"hooks", "reply"}
                      THEN 1 ELSE 0)

C8_Reply ==
    (lmsg = "lifespan.startup" /\ lsent' # lsent) =>
        /\ lsent' = Append(lsent, ExpectedReply("lifespan.startup"))
        /\ lpc' = "receive"

C8_StartupRepliedOnce == [](C8_Count) /\ [][C8_Reply]_vars

C8_Witness ==
    /\ lpc = "done"
    /\ Len(lsent) = 2
    /\ lsent[1] = [type |-> "lifespan.startup.failed", message |-> "boom"]
    /\ lsent[2].type = "lifespan.shutdown.complete"

\* C9: a received lifespan.shutdown gets exactly one reply (failed with the
\* exception text if a shutdown hook raised, complete otherwise) and the loop
\* then terminates; the loop terminates only that way, and a received
\* shutdown message eventually leads to termination.
C9_State ==
    /\ nShutdown <= 1
    /\ Count(lsent, {"lifespan.shutdown.failed", "lifespan.shutdown.complete"})
          = (IF lpc = "done" THEN 1 ELSE 0)
    /\ (lpc = "done" =>
          /\ nShutdown = 1
          /\ lmsg = "lifespan.shutdown"
          /\ lsent[Len(lsent)] = ExpectedReply("lifespan.shutdown"))

C9_ShutdownTerminates == [](C9_State) /\ ((nShutdown > 0) ~> (lpc = "done"))

C9_Witness ==
    /\ lpc = "done"
    /\ nStartup = 1
    /\ lsent[Len(lsent)] = [type |-> "lifespan.shutdown.failed", message |-> "bang"]

IsPrefix(p, q) == Len(p) <= Len(q) /\ SubSeq(q, 1, Len(p)) = p

\* C10: while a startup message is handled the hooks fire in the order
\* framework startup, init.before, init.after, while a shutdown message is
\* handled in the order shutdown.before, shutdown.after, and no hook fires
\* for any other message; a hook that raises is the last one fired for its
\* message; nothing is handled after a shutdown message.
C10_PhaseOrder ==
    /\ IsPrefix(phases,
                IF lmsg = "lifespan.startup"
                THEN <<"_startup", "init.before", "init.after">>
                ELSE IF lmsg = "lifespan.shutdown"
                     THEN <<"shutdown.before", "shutdown.after">>
                     ELSE <<>>)
    /\ (lraised # NoRaise =>
          /\ phases # <<>>
          /\ phases[Len(phases)] = lraised.phase
          /\ lpc \in {"reply", "receive", "done"})
    /\ (nShutdown > 0 => lmsg = "lifespan.shutdown")

C10_Witness ==
    /\ lmsg = "lifespan.shutdown"
    /\ nStartup = 1
    /\ phases = <<"shutdown.before", "shutdown.after">>
    /\ lraised.phase = "shutdown.after"

\* =====================================================================
\* Further properties of ASGIApp (checked under Spec)
\* =====================================================================
IsError(out) == out \notin {"ok", "pending"}

\* C11: __call__ sets the stage to HANDLER and invokes handle_request once;
\* handle_exception is invoked with the exception handle_request raised, and
\* once more, with False as third argument, with the exception that first
\* invocation raised; an exception of the second invocation leaves __call__;
\* handle_exception is invoked at most twice and not at all when
\* handle_request returns.
C11_State ==
    /\ (runPc = "none" <=> runLog = <<>>)
    /\ (runLog # <<>> =>
          LET n == Len(runLog)
          IN  /\ n <= 3
              /\ hxCalls = n - 1
              /\ runLog[1].fn = "handle_request"
              /\ \A i \in 2..n :
                    /\ runLog[i].fn = "handle_exception"
                    /\ IsError(runLog[i - 1].out)
                    /\ runLog[i].err = runLog[i - 1].out
              /\ (n >= 2 => runLog[2].flag = "default")
              /\ (n = 3 => runLog[3].flag = "False")
              /\ \A i \in 1..(n - 1) : IsError(runLog[i].out)
              /\ (runPc = "returned" <=> runLog[n].out = "ok")
              /\ (runPc = "raised" <=>
                    (n = 3 /\ runLog[n].out = "error_of_fallback"))
              /\ (IsError(runLog[n].out) => n = 3))

C11_Run == IsCall("run") => stage' = "HANDLER"

C11_TwoAttemptChain == [](C11_State) /\ [][C11_Run]_vars

C11_Witness ==
    /\ runPc = "raised"
    /\ Len(runLog) = 3
    /\ runLog[3].err = "error_of_handle_exception"

Ordered == {"IDLE", "REQUEST", "HANDLER", "RESPONSE"}
Rank(s) ==
    IF s = "IDLE" THEN 1 ELSE IF s = "REQUEST" THEN 2
    ELSE IF s = "HANDLER" THEN 3 ELSE 4

\* a step that takes the stage back along IDLE, REQUEST, HANDLER, RESPONSE
Backward == stage \in Ordered /\ stage' \in Ordered /\ Rank(stage') < Rank(stage)

\* C13 (as stated): the stage only moves forward along IDLE, REQUEST,
\* HANDLER, RESPONSE, the only backward step being RESPONSE to IDLE.
C13_OnlyBackwardStepIsResponseToIdle ==
    [][Backward => (stage = "RESPONSE" /\ stage' = "IDLE")]_vars

\* C13 (amended): the stage moves backward only by a send() with end_stream
\* true, which resets it to IDLE from whatever stage it is in, or by
\* __call__, which sets it to HANDLER; read() and respond() never move it
\* backward.
C13_BackwardOnlyByFinalSendOrRun ==
    [][Backward => \/ (IsCall("send") /\ stage' = "IDLE")
                   \/ (IsCall("run") /\ stage' = "HANDLER")]_vars

C13_Witness ==
    /\ lastCall.op = "send"
    /\ lastCall.pre = "HANDLER"
    /\ lastCall.arg # None
    /\ stage = "IDLE"

\* C14: once the stage is FAILED no later call changes it.
C14_FailedIsTerminal == [][stage = "FAILED" => stage' = "FAILED"]_vars

\* a step that takes the stage into FAILED
IntoFailed == stage # "FAILED" /\ stage' = "FAILED"

\* C15 (as stated): every transition into FAILED is made by a rejected
\* respond() and has HANDLER as its source stage.
C15_FailedOnlyFromHandler ==
    [][IntoFailed => /\ IsCall("respond")
                     /\ lastCall'.res = "RuntimeError"
                     /\ stage = "HANDLER"]_vars

\* C15 (amended): every transition into FAILED is made by a rejected
\* respond(), and its source stage is IDLE, REQUEST or RESPONSE, never
\* HANDLER.
C15_FailedOnlyByRejectedRespond ==
    [][IntoFailed => /\ IsCall("respond")
                     /\ lastCall'.res = "RuntimeError"
                     /\ stage \in {"IDLE", "REQUEST", "RESPONSE"}]_vars

C15_Witness ==
    /\ lastCall.op = "respond"
    /\ lastCall.pre = "REQUEST"
    /\ lastCall.res = "RuntimeError"
    /\ stage = "FAILED"

\* C16: the loop never runs the startup sequence a second time and never
\* runs the shutdown sequence before a startup message has been processed.
C16_OneStartupThenOneShutdown ==
    /\ nStartup <= 1
    /\ (lmsg = "lifespan.shutdown" => nStartup = 1)

\* C17: read() moves the stage to REQUEST when and only when the stage is
\* IDLE at the call; at any other stage it leaves the stage unchanged, so a
\* read() inside the handler keeps HANDLER, the stage at which respond() is
\* legal.
C17_ReadMovesOnlyIdle ==
    [][(IsCall("read") \/ IsCall("aiter_read")) =>
          /\ stage' = (IF stage = "IDLE" THEN "REQUEST" ELSE stage)
          /\ (stage = "HANDLER" => RespondLegal(stage'))]_vars

C17_Witness ==
    /\ lastCall.op = "read"
    /\ lastCall.pre = "HANDLER"
    /\ stage = "HANDLER"

\* the messages emitted since the stage last became HANDLER
Exchange == SubSeq(sent, exchMark + 1, Len(sent))

C20_NoRestart ==
    ~iterStartRB => (iterRecv = <<>> /\ yielded = <<>> /\ ~request_body)

C20_RequestBodyNeverSetAgain ==
    [](C20_NoRestart) /\ [][~request_body => ~request_body']_vars

C20_Witness ==
    /\ iterPc = "done"
    /\ ~iterStartRB
    /\ lastCall.op = "aiter"
    /\ stage = "HANDLER"
    /\ Len(sent) = 1
    /\ ~sent[1].more_body

\* =====================================================================
\* Properties of ASGIApp.create (checked under CreateSpec)
\* =====================================================================
HasNonAsciiKey(sc) ==
    /\ sc.hasHeaders
    /\ \E i \in 1..Len(sc.headers) :
          \E j \in 1..Len(sc.headers[i][1]) : sc.headers[i][1][j] > 127

\* C12: create() given a header name with a non-ASCII byte fails with
\* BadRequest whatever the scope kind is; no Request is built and no
\* http.lifecycle.request dispatch is made.
C12_NonAsciiKeyIsBadRequest ==
    (cOutcome # "pending" /\ HasNonAsciiKey(scope)) =>
        /\ cOutcome = "BadRequest"
        /\ request = NoRequest
        /\ dispatched = 0
        /\ ~request_body

C12_Witness ==
    /\ cOutcome = "BadRequest"
    /\ scope.type = "lifespan"
    /\ Len(scope.headers) = 2
    /\ scope.headers[1][1] = <<97>>
    /\ scope.headers[2][1] = <<233>>

\* =====================================================================
\* Properties of interleaved calls (checked under ConcSpec)
\* =====================================================================
NewMessages == SubSeq(sent', Len(sent) + 1, Len(sent'))

\* C19: while a send() is suspended on the send-channel an interleaved
\* respond() is rejected (stage FAILED, RuntimeError) and an interleaved
\* send() emits no http.response.start; within an exchange the start is
\* emitted at most once and before every http.response.body.
C19_Interleaved ==
    /\ (IsCall("respond") /\ SendInFlight) =>
          (stage' = "FAILED" /\ lastCall'.res = "RuntimeError" /\ sent' = sent)
    /\ (IsCall("send") /\ SendInFlight) =>
          Count(NewMessages, {"http.response.start"}) = 0

C19_StartFirst ==
    \A i \in 1..Len(Exchange) :
        Exchange[i].type = "http.response.start" => i = 1

C19_SendDetachesBeforeSuspending == [](C19_StartFirst) /\ [][C19_Interleaved]_vars

C19_Witness ==
    /\ tasks[1].pc = "after_start"
    /\ tasks[2].pc = "after_body"
    /\ Len(Exchange) = 2
    /\ Exchange[1].type = "http.response.start"
    /\ Exchange[2].type = "http.response.body"

====
